---- MODULE Spec2Model ----
(***************************************************************************)
(* Coordinate-transformation data model (cets_data_model.models.models)   *)
(* and the standard transformation builders                                *)
(* (cets_data_model.standard_transformations).                             *)
(*                                                                         *)
(* Python values are modelled as follows:                                  *)
(*   Optional[T]      a set: {} is None, {v} is the value v                *)
(*   list             a sequence                                           *)
(*   float            an integer (only equality and order of elements     *)
(*                    matter to the builders)                              *)
(*   model instance   a record with the instance's fields plus cls, the   *)
(*                    class of the instance                                *)
(*   call outcome     [ok |-> TRUE, value |-> v] for a return,            *)
(*                    [ok |-> FALSE, err |-> e] for a raised exception     *)
(***************************************************************************)
EXTENDS Integers, Sequences, FiniteSets, TLC

VARIABLES pc, op, args, result, val, wire, decoded, heap, frames

vars == <<pc, op, args, result, val, wire, decoded, heap, frames>>

(* ---- bounds of the explored inputs ---- *)
MaxLen == 4
MaxDepth == 2
MaxAxes == 2
MaxFrames == 2

(* ---- Python plumbing ---- *)
None == {}
Some(v) == {v}
Get(o) == CHOOSE v \in o : TRUE

Return(v) == [ok |-> TRUE, value |-> v]
Raise(e) == [ok |-> FALSE, err |-> e]

\* pydantic's ValidationError derives from ValueError
IsValueError(r) == ~r.ok /\ r.err \in {"ValueError", "ValidationError"}

Repeat(x, n) == [i \in 1..n |-> x]

(* ---- geometric primitives ---- *)
Vector2D(v) == Len(v) = 2
\* variant: max_length left out
Vector3D_min(v) == Len(v) >= 3
Vector3D(v) == Len(v) = 3
Matrix2x2(m) == Len(m) = 2 /\ \A i \in 1..Len(m) : Vector2D(m[i])
\* variant: rows of any length
Matrix3x3_outer(m) == Len(m) = 3
Matrix3x3(m) == Len(m) = 3 /\ \A i \in 1..Len(m) : Vector3D(m[i])

\* validation of a list as Vector<n>D: the list of its elements as floats
validate_Vector(n, v) ==
    IF (n = 2 /\ Vector2D(v)) \/ (n = 3 /\ Vector3D(v))
    THEN Return([i \in 1..Len(v) |-> v[i]])
    ELSE Raise("ValidationError")

\* validation of a list of lists as Matrix<n>x<n>
validate_Matrix(n, m) ==
    IF (n = 2 /\ Matrix2x2(m)) \/ (n = 3 /\ Matrix3x3(m))
    THEN Return([i \in 1..Len(m) |-> [k \in 1..Len(m[i]) |-> m[i][k]]])
    ELSE Raise("ValidationError")

(* ---- coordinate systems ---- *)
Axis(name, axis_unit) ==
    [cls |-> "Axis", name |-> name, axis_unit |-> axis_unit, axis_type |-> None]

CoordinateSystem(name, axes) ==
    [cls |-> "CoordinateSystem", name |-> name, axes |-> axes]

(* ---- transformation variants ---- *)
Identity(name, input, output) ==
    Return([cls |-> "Identity", type |-> "identity",
            name |-> name, input |-> input, output |-> output])

MapAxis(name, input, output, mapAxis) ==
    Return([cls |-> "MapAxis", type |-> "mapAxis",
            name |-> name, input |-> input, output |-> output,
            mapAxis |-> mapAxis])

Translation(name, input, output, translation) ==
    Return([cls |-> "Translation", type |-> "translation",
            name |-> name, input |-> input, output |-> output,
            translation |-> translation])

Scale(name, input, output, scale) ==
    Return([cls |-> "Scale", type |-> "scale",
            name |-> name, input |-> input, output |-> output,
            scale |-> scale])

Affine(name, input, output, affine) ==
    IF affine # None /\ ~Matrix3x3(Get(affine))
    THEN Raise("ValidationError")
    ELSE Return([cls |-> "Affine", type |-> "affine",
                 name |-> name, input |-> input, output |-> output,
                 affine |-> affine])

\* Flip2D and Rotation2D belong to the schema revision the builders import
Flip2D(name, input, output, flip2d) ==
    IF flip2d # None /\ ~Matrix2x2(Get(flip2d))
    THEN Raise("ValidationError")
    ELSE Return([cls |-> "Flip2D", type |-> "flip2d",
                 name |-> name, input |-> input, output |-> output,
                 flip2d |-> flip2d])

Rotation2D(name, input, output, rotation2d) ==
    IF rotation2d # None /\ ~Matrix2x2(Get(rotation2d))
    THEN Raise("ValidationError")
    ELSE Return([cls |-> "Rotation2D", type |-> "rotation2d",
                 name |-> name, input |-> input, output |-> output,
                 rotation2d |-> rotation2d])

\* discriminator literals of the Transformation union
TransformationTags ==
    {"affine", "identity", "mapAxis", "translation", "scale", "sequence"}

\* literals the importing revision adds to the union
Tags2D == {"flip2d", "rotation2d"}

\* Sequence.sequence is list[Transformation]: every step must carry a
\* discriminator of the union
Sequence(name, input, output, sequence) ==
    IF sequence # None
       /\ \E i \in 1..Len(Get(sequence)) :
             Get(sequence)[i].type \notin TransformationTags \cup Tags2D
    THEN Raise("ValidationError")
    ELSE Return([cls |-> "Sequence", type |-> "sequence",
                 name |-> name, input |-> input, output |-> output,
                 sequence |-> sequence])

(* ---- the Transformation union: serialization and validation ---- *)
AxisNameMapping(axis1_name, axis2_name) ==
    [cls |-> "AxisNameMapping", axis1_name |-> axis1_name,
     axis2_name |-> axis2_name]

\* the declared fields of each model class
FieldsOf(cls) ==
    CASE cls = "Identity" -> {"name", "input", "output", "type"}
      [] cls = "MapAxis" -> {"name", "input", "output", "type", "mapAxis"}
      [] cls = "Translation" -> {"name", "input", "output", "type", "translation"}
      [] cls = "Scale" -> {"name", "input", "output", "type", "scale"}
      [] cls = "Affine" -> {"name", "input", "output", "type", "affine"}
      [] cls = "Sequence" -> {"name", "input", "output", "type", "sequence"}
      [] cls = "AxisNameMapping" -> {"axis1_name", "axis2_name"}
      [] cls = "Axis" -> {"name", "axis_unit", "axis_type"}
      [] cls = "CoordinateSystem" -> {"name", "axes"}
      [] cls = "CoordinateTransformation" -> {"name", "input", "output"}
      [] cls = "CoordMetaMixin" ->
             {"coordinate_systems", "coordinate_transformations"}
      [] cls = "Image2D" ->
             {"width", "height", "coordinate_systems",
              "coordinate_transformations"}
      [] cls = "Image3D" ->
             {"width", "height", "depth", "coordinate_systems",
              "coordinate_transformations"}
      [] cls \in {"Tomogram", "datamodels.Tomogram"} ->
             {"width", "height", "depth", "coordinate_systems",
              "coordinate_transformations", "path", "voxel_size",
              "ctf_corrected", "even_path", "odd_path"}

\* variant: the scale literal selects the Translation class
ClassOfTag_confused(tag) ==
    CASE tag = "affine" -> "Affine"
      [] tag = "identity" -> "Identity"
      [] tag = "mapAxis" -> "MapAxis"
      [] tag = "translation" -> "Translation"
      [] tag = "scale" -> "Translation"
      [] tag = "sequence" -> "Sequence"

\* variant: the mapAxis literal selects the Identity class
ClassOfTag_mapaxis(tag) ==
    CASE tag = "affine" -> "Affine"
      [] tag = "identity" -> "Identity"
      [] tag = "mapAxis" -> "Identity"
      [] tag = "translation" -> "Translation"
      [] tag = "scale" -> "Scale"
      [] tag = "sequence" -> "Sequence"

\* Field(discriminator="type"): the class each literal of the union selects
ClassOfTag(tag) ==
    CASE tag = "affine" -> "Affine"
      [] tag = "identity" -> "Identity"
      [] tag = "mapAxis" -> "MapAxis"
      [] tag = "translation" -> "Translation"
      [] tag = "scale" -> "Scale"
      [] tag = "sequence" -> "Sequence"

\* BaseModel.model_dump: the instance as a mapping from field names to
\* values, nested instances dumped in turn; the class is not part of it
RECURSIVE model_dump(_)
model_dump(t) ==
    [k \in FieldsOf(t.cls) |->
        IF k \in {"sequence", "mapAxis"} /\ t[k] # None
        THEN Some([i \in 1..Len(Get(t[k])) |-> model_dump(Get(t[k])[i])])
        ELSE t[k]]

\* validation of a mapping as AxisNameMapping (extra="forbid")
validate_AxisNameMapping(d) ==
    IF ~(DOMAIN d \subseteq FieldsOf("AxisNameMapping"))
    THEN Raise("ValidationError")
    ELSE Return(AxisNameMapping(
             IF "axis1_name" \in DOMAIN d THEN d.axis1_name ELSE None,
             IF "axis2_name" \in DOMAIN d THEN d.axis2_name ELSE None))

\* validation of a mapping against the Transformation union: the type key
\* selects the class, then the class validates the mapping (extra="forbid",
\* absent fields take their defaults)
RECURSIVE validate_python(_)
validate_python(d) ==
    IF "type" \notin DOMAIN d
    THEN Raise("ValidationError")
    ELSE IF d.type \notin TransformationTags
    THEN Raise("ValidationError")
    ELSE LET cls == ClassOfTag(d.type)
             F(k) == IF k \in DOMAIN d THEN d[k] ELSE None
             Items(k) ==
                 IF F(k) = None
                 THEN Return(None)
                 ELSE LET rs == [i \in 1..Len(Get(F(k))) |->
                                    IF k = "sequence"
                                    THEN validate_python(Get(F(k))[i])
                                    ELSE validate_AxisNameMapping(Get(F(k))[i])]
                      IN  IF \E i \in 1..Len(rs) : ~rs[i].ok
                          THEN Raise("ValidationError")
                          ELSE Return(Some([i \in 1..Len(rs) |-> rs[i].value]))
         IN  IF ~(DOMAIN d \subseteq FieldsOf(cls))
             THEN Raise("ValidationError")
             ELSE CASE cls = "Identity" ->
                         Identity(F("name"), F("input"), F("output"))
                    [] cls = "MapAxis" ->
                         IF ~Items("mapAxis").ok
                         THEN Items("mapAxis")
                         ELSE MapAxis(F("name"), F("input"), F("output"),
                                      Items("mapAxis").value)
                    [] cls = "Translation" ->
                         Translation(F("name"), F("input"), F("output"),
                                     F("translation"))
                    [] cls = "Scale" ->
                         Scale(F("name"), F("input"), F("output"), F("scale"))
                    [] cls = "Affine" ->
                         Affine(F("name"), F("input"), F("output"), F("affine"))
                    [] cls = "Sequence" ->
                         IF ~Items("sequence").ok
                         THEN Items("sequence")
                         ELSE Sequence(F("name"), F("input"), F("output"),
                                       Items("sequence").value)

(* ---- coordinate systems and containers ---- *)
\* validation of a list from the outcomes of its elements' validation
ValidateList(rs) ==
    IF \E i \in 1..Len(rs) : ~rs[i].ok
    THEN Raise("ValidationError")
    ELSE Return(Some([i \in 1..Len(rs) |-> rs[i].value]))

\* validation of a mapping as Axis: name is required
validate_Axis(d) ==
    IF ~(DOMAIN d \subseteq FieldsOf("Axis"))
    THEN Raise("ValidationError")
    ELSE IF "name" \notin DOMAIN d
    THEN Raise("ValidationError")
    ELSE Return([Axis(d.name, IF "axis_unit" \in DOMAIN d
                              THEN d.axis_unit ELSE None)
                   EXCEPT !.axis_type = IF "axis_type" \in DOMAIN d
                                        THEN d.axis_type ELSE None])

\* validation of a mapping as CoordinateSystem: name and axes are required,
\* axes is a list of Axis of any length
validate_CoordinateSystem(d) ==
    IF ~(DOMAIN d \subseteq FieldsOf("CoordinateSystem"))
    THEN Raise("ValidationError")
    ELSE IF "name" \notin DOMAIN d \/ "axes" \notin DOMAIN d
    THEN Raise("ValidationError")
    ELSE LET rs == ValidateList([i \in 1..Len(d.axes) |->
                                    validate_Axis(d.axes[i])])
         IN  IF ~rs.ok THEN rs
             ELSE Return(CoordinateSystem(d.name, Get(rs.value)))

dump_CoordinateSystem(cs) ==
    [name |-> cs.name,
     axes |-> [i \in 1..Len(cs.axes) |-> model_dump(cs.axes[i])]]

\* validation of a mapping as the base class CoordinateTransformation
validate_CoordinateTransformation(d) ==
    IF ~(DOMAIN d \subseteq FieldsOf("CoordinateTransformation"))
    THEN Raise("ValidationError")
    ELSE Return([k \in FieldsOf("CoordinateTransformation") \cup {"cls"} |->
                    IF k = "cls" THEN "CoordinateTransformation"
                    ELSE IF k \in DOMAIN d THEN d[k] ELSE None])

\* the classes that declare coordinate_transformations
ContainerClasses ==
    {"Image2D", "Image3D", "Tomogram", "CoordMetaMixin", "datamodels.Tomogram"}

\* the declared element type of coordinate_transformations
ElementType(cls) ==
    IF cls = "datamodels.Tomogram"
    THEN "CoordinateTransformation"
    ELSE "Transformation"

\* an element is serialized by the declared element type: through the union
\* by its own class, as the base class by the base class's fields
dump_element(type, t) ==
    IF type = "Transformation"
    THEN model_dump(t)
    ELSE [k \in FieldsOf("CoordinateTransformation") |-> t[k]]

validate_element(type, d) ==
    IF type = "Transformation"
    THEN validate_python(d)
    ELSE validate_CoordinateTransformation(d)

\* container.model_dump()
dump_container(c) ==
    [k \in FieldsOf(c.cls) |->
        IF c[k] = None THEN None
        ELSE IF k = "coordinate_transformations"
        THEN Some([i \in 1..Len(Get(c[k])) |->
                      dump_element(ElementType(c.cls), Get(c[k])[i])])
        ELSE IF k = "coordinate_systems"
        THEN Some([i \in 1..Len(Get(c[k])) |->
                      dump_CoordinateSystem(Get(c[k])[i])])
        ELSE c[k]]

\* validation of a mapping as a container class
validate_container(cls, d) ==
    IF ~(DOMAIN d \subseteq FieldsOf(cls))
    THEN Raise("ValidationError")
    ELSE LET F(k) == IF k \in DOMAIN d THEN d[k] ELSE None
             Items(k) == Get(F(k))
             ts == IF F("coordinate_transformations") = None
                   THEN Return(None)
                   ELSE ValidateList(
                            [i \in 1..Len(Items("coordinate_transformations")) |->
                                validate_element(ElementType(cls),
                                    Items("coordinate_transformations")[i])])
             cs == IF F("coordinate_systems") = None
                   THEN Return(None)
                   ELSE ValidateList(
                            [i \in 1..Len(Items("coordinate_systems")) |->
                                validate_CoordinateSystem(
                                    Items("coordinate_systems")[i])])
         IN  IF ~ts.ok THEN ts
             ELSE IF ~cs.ok THEN cs
             ELSE Return([k \in FieldsOf(cls) \cup {"cls"} |->
                             IF k = "cls" THEN cls
                             ELSE IF k = "coordinate_transformations"
                             THEN ts.value
                             ELSE IF k = "coordinate_systems" THEN cs.value
                             ELSE F(k)])

\* validation of a mapping as the class named
model_validate(cls, d) ==
    CASE cls = "Axis" -> validate_Axis(d)
      [] cls = "CoordinateSystem" -> validate_CoordinateSystem(d)
      [] cls \in ContainerClasses -> validate_container(cls, d)

(* ---- construction with keyword arguments, assignment ---- *)
VariantClasses ==
    {"Identity", "MapAxis", "Translation", "Scale", "Affine", "Sequence"}

\* type: Literal[...] of each variant
LiteralOf(cls) ==
    CASE cls = "Identity" -> "identity"
      [] cls = "MapAxis" -> "mapAxis"
      [] cls = "Translation" -> "translation"
      [] cls = "Scale" -> "scale"
      [] cls = "Affine" -> "affine"
      [] cls = "Sequence" -> "sequence"

\* the field values of kwargs given to the constructor of cls, defaults filled in
Build(cls, d) ==
    LET F(k) == IF k \in DOMAIN d THEN d[k] ELSE None
    IN  CASE cls = "Identity" -> Identity(F("name"), F("input"), F("output"))
          [] cls = "MapAxis" ->
               MapAxis(F("name"), F("input"), F("output"), F("mapAxis"))
          [] cls = "Translation" ->
               Translation(F("name"), F("input"), F("output"), F("translation"))
          [] cls = "Scale" -> Scale(F("name"), F("input"), F("output"), F("scale"))
          [] cls = "Affine" -> Affine(F("name"), F("input"), F("output"), F("affine"))
          [] cls = "Sequence" ->
               Sequence(F("name"), F("input"), F("output"), F("sequence"))

\* variant: a type keyword is stored as given
construct_any_type(cls, d) ==
    IF ~(DOMAIN d \subseteq FieldsOf(cls))
    THEN Raise("ValidationError")
    ELSE LET r == Build(cls, d)
         IN  IF r.ok /\ "type" \in DOMAIN d
             THEN Return([r.value EXCEPT !.type = d.type])
             ELSE r

\* variant: keywords that are no fields are ignored
construct_lenient(cls, d) ==
    IF "type" \in DOMAIN d /\ d.type # LiteralOf(cls)
    THEN Raise("ValidationError")
    ELSE Build(cls, d)

\* cls(**d): extra="forbid", the type keyword must be the literal, the
\* payload is validated
construct(cls, d) ==
    IF ~(DOMAIN d \subseteq FieldsOf(cls))
    THEN Raise("ValidationError")
    ELSE IF "type" \in DOMAIN d /\ d.type # LiteralOf(cls)
    THEN Raise("ValidationError")
    ELSE Build(cls, d)

\* variant: an assignment is stored without validation
setattr_unchecked(t, field, value) ==
    IF field \notin FieldsOf(t.cls)
    THEN Raise("ValueError")
    ELSE Return([t EXCEPT ![field] = value])

\* instance.field = value under validate_assignment=True: the value is
\* validated as that field (the other fields are not looked at); the outcome
\* holds the instance as updated, a raise leaves the instance as it was
setattr(t, field, value) ==
    IF field \notin FieldsOf(t.cls)
    THEN Raise("ValueError")
    ELSE LET r == construct(t.cls, [k \in {field} |-> value])
         IN  IF r.ok THEN Return([t EXCEPT ![field] = r.value[field]]) ELSE r

(* ---- standard_transformations: axes and coordinate systems ---- *)
x_axis_logical == Axis("logical coordinates x axis", Some("pixel/voxel"))
y_axis_logical == Axis("logical coordinates y axis", Some("pixel/voxel"))
z_axis_logical == Axis("logical coordinates z axis", Some("pixel/voxel"))

\* the unit is spelled with A-ring in the source; ASCII here
x_axis_physical == Axis("physical coordinates x axis", Some("Angstrom"))
y_axis_physical == Axis("physical coordinates y axis", Some("Angstrom"))
z_axis_physical == Axis("physical coordinates z axis", Some("Angstrom"))

physical_coords(name) ==
    CoordinateSystem(name, <<x_axis_physical, z_axis_physical>>)

\* name is Optional: None selects the base frame
logical_coords(name) ==
    CoordinateSystem(IF name = None THEN "base_logical_coordinates" ELSE Get(name),
                     <<x_axis_logical, z_axis_logical>>)

BaseName == logical_coords(None).name

(* ---- standard_transformations: generator functions ---- *)
\* variant: the x and y matrices exchanged
generate_flip_transformation_swapped(name, input, output, axis) ==
    IF axis = None
    THEN Flip2D(name, input, output, Some(<< <<1, 0>>, <<0, 1>> >>))
    ELSE IF Get(axis) = "x"
    THEN Flip2D(name, input, output, Some(<< <<-1, 0>>, <<0, 1>> >>))
    ELSE IF Get(axis) = "y"
    THEN Flip2D(name, input, output, Some(<< <<1, 0>>, <<0, -1>> >>))
    ELSE Raise("ValueError")

generate_flip_transformation(name, input, output, axis) ==
    IF axis = None
    THEN Flip2D(name, input, output, Some(<< <<1, 0>>, <<0, 1>> >>))
    ELSE IF Get(axis) = "x"
    THEN Flip2D(name, input, output, Some(<< <<1, 0>>, <<0, -1>> >>))
    ELSE IF Get(axis) = "y"
    THEN Flip2D(name, input, output, Some(<< <<-1, 0>>, <<0, 1>> >>))
    ELSE Raise("ValueError")

\* variant: only a vector that is too long is rejected
generate_translation_transformation_short(name, input, output, dim, trans_vector) ==
    LET tv == IF trans_vector = None THEN Repeat(0, dim) ELSE Get(trans_vector)
    IN  IF Len(tv) > dim
        THEN Raise("ValueError")
        ELSE Translation(name, input, output, Some(tv))

generate_translation_transformation(name, input, output, dim, trans_vector) ==
    LET tv == IF trans_vector = None THEN Repeat(0, dim) ELSE Get(trans_vector)
    IN  IF Len(tv) # dim
        THEN Raise("ValueError")
        ELSE Translation(name, input, output, Some(tv))

\* variant: every matrix that does not have 3 rows is taken as 2-D
generate_rotation_transformation_no_else(name, input, output, affine) ==
    IF affine = None
    THEN Identity(name, input, output)
    ELSE IF Len(Get(affine)) = 3
    THEN Affine(name, input, output, affine)
    ELSE Rotation2D(name, input, output, None)

generate_rotation_transformation(name, input, output, affine) ==
    IF affine = None
    THEN Identity(name, input, output)
    ELSE IF Len(Get(affine)) = 3
    THEN Affine(name, input, output, affine)
    ELSE IF Len(Get(affine)) = 2
    THEN Rotation2D(name, input, output, affine)
    ELSE Raise("ValueError")

\* variant: the default scale factor is one
generate_scale_transformation_unit(name, input, output, scale, dim) ==
    IF dim = None
    THEN Raise("ValueError")
    ELSE LET s == IF scale = None THEN 1 ELSE Get(scale)
         IN  Scale(name, input, output, Some(Repeat(s, Get(dim))))

\* scale and dim are Optional
generate_scale_transformation(name, input, output, scale, dim) ==
    IF dim = None
    THEN Raise("ValueError")
    ELSE LET s == IF scale = None THEN 0 ELSE Get(scale)
         IN  Scale(name, input, output, Some(Repeat(s, Get(dim))))

(* ---- standard_transformations: pipeline builders ---- *)

\* variant: a step that raised is left out of the list
ListOf_partial(rs) ==
    LET good == SelectSeq(rs, LAMBDA r : r.ok)
    IN  Return([i \in 1..Len(good) |-> good[i].value])

\* a list display of calls: the elements are evaluated in order and the
\* first exception propagates; otherwise the list of the returned values
ListOf(rs) ==
    IF \E i \in 1..Len(rs) : ~rs[i].ok
    THEN rs[CHOOSE i \in 1..Len(rs) :
                ~rs[i].ok /\ \A j \in 1..(i - 1) : rs[j].ok]
    ELSE Return([i \in 1..Len(rs) |-> rs[i].value])

\* return (Sequence(..., sequence=steps), coords), unless building the steps
\* or validating the Sequence raised
Pipeline(name, output, steps, coords) ==
    IF ~steps.ok
    THEN steps
    ELSE LET s == Sequence(Some(name), Some(BaseName), Some(output),
                           Some(steps.value))
         IN  IF ~s.ok THEN s ELSE Return(<<s.value, coords>>)

image_pixel_size(apix) ==
    LET name == "image_pixel_size"
        px_size_coords == physical_coords(name)
        s == Scale(Some(name), Some(logical_coords(None).name),
                   Some(px_size_coords.name), Some(<<apix, apix>>))
    IN  IF ~s.ok THEN s ELSE Return(<<s.value, px_size_coords>>)

\* variant: the frame named as by image_pixel_size
image_super_resolution_pixel_size_copied(apix) ==
    LET name == "image_pixel_size"
        px_size_coords == physical_coords(name)
        s == Scale(Some(name), Some(logical_coords(None).name),
                   Some(px_size_coords.name), Some(<<apix, apix>>))
    IN  IF ~s.ok THEN s ELSE Return(<<s.value, px_size_coords>>)

image_super_resolution_pixel_size(apix) ==
    LET name == "image_super_resolution_pixel_size"
        px_size_coords == physical_coords(name)
        s == Scale(Some(name), Some(logical_coords(None).name),
                   Some(px_size_coords.name), Some(<<apix, apix>>))
    IN  IF ~s.ok THEN s ELSE Return(<<s.value, px_size_coords>>)

aligned_calibration_image_to_micrograph(flip_axis, translation) ==
    LET sequence_name == "Align calibration image to movie"
        flipped_coords == logical_coords(Some("calibration_image_flipped"))
        final == logical_coords(Some("calibration_image_aligned"))
    IN  Pipeline(sequence_name, final.name,
            ListOf(<<
                generate_flip_transformation(
                    Some(sequence_name), Some(logical_coords(None).name),
                    Some(flipped_coords.name), flip_axis),
                generate_translation_transformation(
                    Some(sequence_name), Some(flipped_coords.name),
                    Some(final.name), 2, translation) >>),
            <<flipped_coords, final>>)

aligned_movie_frame_to_projection(translation_vector) ==
    LET sequence_name == "Align movie frame to projection"
        translated_coords == logical_coords(Some("movie_frame_aligned"))
        t == Translation(Some(sequence_name), Some(logical_coords(None).name),
                         Some(translated_coords.name), translation_vector)
    IN  IF ~t.ok THEN t ELSE Return(<<t.value, <<translated_coords>> >>)

\* variant: the rotation is applied before the translation
aligned_projection_image_to_tilt_series_swapped(translation_vector, rotation_matrix) ==
    LET sequence_name == "Align projection image to tilt series"
        translated_cords == logical_coords(Some("projection_image_translated"))
        final == logical_coords(Some("projection_image_aligned"))
    IN  Pipeline(sequence_name, final.name,
            ListOf(<<
                generate_rotation_transformation(
                    Some(sequence_name), Some(logical_coords(None).name),
                    Some(translated_cords.name), rotation_matrix),
                generate_translation_transformation(
                    Some(sequence_name), Some(translated_cords.name),
                    Some(final.name), 2, translation_vector) >>),
            <<translated_cords, final>>)

aligned_projection_image_to_tilt_series(translation_vector, rotation_matrix) ==
    LET sequence_name == "Align projection image to tilt series"
        translated_cords == logical_coords(Some("projection_image_translated"))
        final == logical_coords(Some("projection_image_aligned"))
    IN  Pipeline(sequence_name, final.name,
            ListOf(<<
                generate_translation_transformation(
                    Some(sequence_name), Some(logical_coords(None).name),
                    Some(translated_cords.name), 2, translation_vector),
                generate_rotation_transformation(
                    Some(sequence_name), Some(translated_cords.name),
                    Some(final.name), rotation_matrix) >>),
            <<translated_cords, final>>)

\* variant: the translation starts from the base frame again
aligned_subtomo_to_tomogram_unchained(rotation_matrix, translation_vector) ==
    LET sequence_name == "Align subtomo to tomogram"
        rotated_cords == logical_coords(Some("subtomo_rotated"))
        final == logical_coords(Some("subtomo_aligned"))
    IN  Pipeline(sequence_name, final.name,
            ListOf(<<
                generate_rotation_transformation(
                    Some(sequence_name), Some(logical_coords(None).name),
                    Some(rotated_cords.name), rotation_matrix),
                generate_translation_transformation(
                    Some(sequence_name), Some(logical_coords(None).name),
                    Some(final.name), 3, translation_vector) >>),
            <<rotated_cords, final>>)

aligned_subtomo_to_tomogram(rotation_matrix, translation_vector) ==
    LET sequence_name == "Align subtomo to tomogram"
        rotated_cords == logical_coords(Some("subtomo_rotated"))
        final == logical_coords(Some("subtomo_aligned"))
    IN  Pipeline(sequence_name, final.name,
            ListOf(<<
                generate_rotation_transformation(
                    Some(sequence_name), Some(logical_coords(None).name),
                    Some(rotated_cords.name), rotation_matrix),
                generate_translation_transformation(
                    Some(sequence_name), Some(rotated_cords.name),
                    Some(final.name), 3, translation_vector) >>),
            <<rotated_cords, final>>)

\* variant: the coordinate systems are returned in another order
aligned_map_to_tomogram_reordered(scale, rotation_matrix, translation_vector) ==
    LET sequence_name == "Align map to tomogram"
        scaled_coords == logical_coords(Some("map_scaled"))
        rotated_cords == logical_coords(Some("map_rotated"))
        final == logical_coords(Some("map_aligned"))
    IN  Pipeline(sequence_name, final.name,
            ListOf(<<
                generate_scale_transformation(
                    Some(sequence_name), Some(logical_coords(None).name),
                    Some(scaled_coords.name), scale, Some(3)),
                generate_rotation_transformation(
                    Some(sequence_name), Some(scaled_coords.name),
                    Some(rotated_cords.name), rotation_matrix),
                generate_translation_transformation(
                    Some(sequence_name), Some(rotated_cords.name),
                    Some(final.name), 3, translation_vector) >>),
            <<rotated_cords, scaled_coords, final>>)

aligned_map_to_tomogram(scale, rotation_matrix, translation_vector) ==
    LET sequence_name == "Align map to tomogram"
        scaled_coords == logical_coords(Some("map_scaled"))
        rotated_cords == logical_coords(Some("map_rotated"))
        final == logical_coords(Some("map_aligned"))
    IN  Pipeline(sequence_name, final.name,
            ListOf(<<
                generate_scale_transformation(
                    Some(sequence_name), Some(logical_coords(None).name),
                    Some(scaled_coords.name), scale, Some(3)),
                generate_rotation_transformation(
                    Some(sequence_name), Some(scaled_coords.name),
                    Some(rotated_cords.name), rotation_matrix),
                generate_translation_transformation(
                    Some(sequence_name), Some(rotated_cords.name),
                    Some(final.name), 3, translation_vector) >>),
            <<scaled_coords, rotated_cords, final>>)

\* variant: the rotated frame is not returned
aligned_annotation_to_tomogram_dangling(scale, rotation_matrix, translation) ==
    LET sequence_name == "Align annotation to tomogram"
        scaled_coords == logical_coords(Some("annotation_scaled"))
        rotated_cords == logical_coords(Some("annotation_rotated"))
        final == logical_coords(Some("annotation_aligned"))
    IN  Pipeline(sequence_name, final.name,
            ListOf(<<
                generate_scale_transformation(
                    Some(sequence_name), Some(logical_coords(None).name),
                    Some(scaled_coords.name), scale, Some(3)),
                generate_rotation_transformation(
                    Some(sequence_name), Some(scaled_coords.name),
                    Some(rotated_cords.name), rotation_matrix),
                generate_translation_transformation(
                    Some(sequence_name), Some(rotated_cords.name),
                    Some(final.name), 3, translation) >>),
            <<scaled_coords, final>>)

aligned_annotation_to_tomogram(scale, rotation_matrix, translation) ==
    LET sequence_name == "Align annotation to tomogram"
        scaled_coords == logical_coords(Some("annotation_scaled"))
        rotated_cords == logical_coords(Some("annotation_rotated"))
        final == logical_coords(Some("annotation_aligned"))
    IN  Pipeline(sequence_name, final.name,
            ListOf(<<
                generate_scale_transformation(
                    Some(sequence_name), Some(logical_coords(None).name),
                    Some(scaled_coords.name), scale, Some(3)),
                generate_rotation_transformation(
                    Some(sequence_name), Some(scaled_coords.name),
                    Some(rotated_cords.name), rotation_matrix),
                generate_translation_transformation(
                    Some(sequence_name), Some(rotated_cords.name),
                    Some(final.name), 3, translation) >>),
            <<scaled_coords, rotated_cords, final>>)

(* ---- explored inputs ---- *)
CommonArgs ==
    { <<Some("t"), Some("in"), Some("out")>>,
      <<Some("in"), Some("out"), Some("t")>>,
      <<None, None, None>> }

AxisArgs == {None, Some("x"), Some("y"), Some("q")}

Ramp(n) == [i \in 1..n |-> i]
VectorArgs == {Repeat(0, n) : n \in 0..MaxLen} \cup {Ramp(n) : n \in 0..MaxLen}
OptVectorArgs == {None} \cup {Some(v) : v \in VectorArgs}

\* r rows of c entries, except that row j (if any) has c2 entries
Ragged(r, c, j, c2) ==
    [i \in 1..r |-> [k \in 1..(IF i = j THEN c2 ELSE c) |-> 10 * i + k]]
\* every r x c matrix, and every square matrix with one row of another length
MatrixArgs ==
    {Ragged(r, c, 0, 0) : r \in 0..MaxLen, c \in 0..MaxLen}
        \cup {Ragged(r, r, j, c2) : r \in 0..MaxLen, j \in 1..MaxLen,
                                    c2 \in 0..MaxLen}
OptMatrixArgs == {None} \cup {Some(m) : m \in MatrixArgs}

ScaleArgs == {None, Some(2)}
DimArgs == {None} \cup {Some(n) : n \in 0..MaxLen}
ApixArgs == {1, 2}

(* ---- utils/image_utils: files and image headers ---- *)
\* A path names nothing ("missing"), a directory, or a file. What the
\* readers see of a file: mrc, the header mrcfile opens (None: mrcfile.open
\* raises); image, what PIL opens (None: Image.open raises
\* UnidentifiedImageError or OSError); header, the integers at the fixed
\* offsets of the first 512 bytes (None: the file is empty)
File(kind, mrc, image, header) ==
    [kind |-> kind, mrc |-> mrc, image |-> image, header |-> header]

\* num / den * 10^exp
Quot(num, den, exp) == [num |-> num, den |-> den, exp |-> exp]

ImageInfo(size_x, size_y, size_z, mode, mode_desc, apix_x, apix_y, apix_z) ==
    [cls |-> "ImageInfo", size_x |-> size_x, size_y |-> size_y,
     size_z |-> size_z, mode |-> mode, mode_desc |-> mode_desc,
     apix_x |-> apix_x, apix_y |-> apix_y, apix_z |-> apix_z]

check_file_is_mrc(file) == file.kind = "file" /\ file.mrc # None

check_file_is_tif(file) ==
    /\ file.kind = "file"
    /\ file.image # None
    /\ Get(file.image).format = "TIFF"

get_mrc_dims(in_mrc) ==
    LET h == Get(in_mrc.mrc) IN Return(<<h.nx, h.ny, h.nz>>)

get_tiff_dims(in_tiff) ==
    LET t == Get(in_tiff.image) IN Return(<<t.width, t.height, t.n_frames>>)

\* variant: the TIFF check made first
get_image_dims_tif_first(in_img) ==
    IF in_img.kind # "file"
    THEN Raise("ValueError")
    ELSE IF check_file_is_tif(in_img) THEN get_tiff_dims(in_img)
    ELSE IF check_file_is_mrc(in_img) THEN get_mrc_dims(in_img)
    ELSE Raise("ValueError")

get_image_dims(in_img) ==
    IF in_img.kind # "file"
    THEN Raise("ValueError")
    ELSE IF check_file_is_mrc(in_img) THEN get_mrc_dims(in_img)
    ELSE IF check_file_is_tif(in_img) THEN get_tiff_dims(in_img)
    ELSE Raise("ValueError")

tiff_modes(mode) ==
    CASE mode = "1" ->
             "1-bit pixels, black and white, stored with one pixel per byte"
      [] mode = "L" -> "8-bit unsigned pixels, grayscale"
      [] mode = "P" -> "8-bit unsigned pixels, grayscale, mapped to any other mode using a color palette"
      [] mode = "RGB" -> "3x8-bit pixels, true color"
      [] mode = "RGBA" -> "4x8-bit pixels, true color with transparency mask"
      [] mode = "CMYK" -> "4x8-bit pixels, color separation"
      [] mode = "YCbCr" -> "3x8-bit pixels, color video format"
      [] mode = "LAB" -> "3x8-bit pixels, the L*a*b color space"
      [] mode = "HSV" -> "3x8-bit pixels, Hue, Saturation, Value color space"
      [] mode = "I" -> "32-bit signed integer pixels"
      [] mode = "F" -> "32-bit floating point pixels"
      [] mode = "LA" -> "8-bit unsigned pixels, grayscale with alpha"
      [] mode = "PA" ->
             "8-bit unsigned pixels, grayscale mapped to palette with alpha"
      [] mode = "RGBX" -> "true color with padding"
      [] mode = "RGBa" -> "true color with premultiplied alpha"
      [] mode = "La" ->
             "8-bit unsigned pixels, grayscale with premultiplied alpha"
      [] mode = "I;16" -> "16-bit unsigned integer pixels"
      [] mode = "I;16L" -> "16-bit little endian unsigned integer pixels"
      [] mode = "I;16B" -> "16-bit big endian unsigned integer pixels"
      [] mode = "I;16N" -> "16-bit native endian unsigned integer pixels"
      [] OTHER -> "Cannot determine TIFF mode"

\* apix = dpi[0] / 2.54e-8
get_tiff_info(in_tiff) ==
    LET t == Get(in_tiff.image)
        apix == IF t.dpi # None THEN Some(Quot(Get(t.dpi), 254, 10)) ELSE None
    IN  Return(ImageInfo(t.width, t.height, t.n_frames, t.mode,
                         tiff_modes(t.mode), apix, apix,
                         IF t.n_frames = 1 THEN None ELSE apix))

mrc_modes(mode) ==
    CASE mode = 0 -> "8-bit signed integer (range -128 to 127)"
      [] mode = 1 -> "16-bit signed integer"
      [] mode = 2 -> "32-bit signed real"
      [] mode = 3 -> "transform : complex 16-bit integers"
      [] mode = 4 -> "transform : complex 32-bit reals"
      [] mode = 6 -> "16-bit unsigned integer"
      [] mode = 12 -> "16-bit float (IEEE754)"
      [] OTHER -> "Unknown mode (data type): " \o ToString(mode)

\* cella and mx are numpy scalars: a zero mx gives inf or nan, no exception
get_mrc_info(in_mrc) ==
    LET head == Get(in_mrc.mrc)
    IN  Return(ImageInfo(head.nx, head.ny, head.nz, ToString(head.mode),
                         mrc_modes(head.mode),
                         Some(Quot(head.cella_x, head.mx, 0)),
                         Some(Quot(head.cella_y, head.my, 0)),
                         IF head.nz = 1 THEN None
                         ELSE Some(Quot(head.cella_x, head.mx, 0))))

em_dtype(data_type_code) ==
    CASE data_type_code = 1 -> "int8"
      [] data_type_code = 2 -> "int16"
      [] data_type_code = 4 -> "int32"
      [] data_type_code = 5 -> "float32"
      [] data_type_code = 8 -> "complex64"
      [] OTHER -> "float32"

\* the divisions are Python int / int: a zero divisor raises
get_em_file_info(in_em_file) ==
    IF in_em_file.kind = "missing" THEN Raise("FileNotFoundError")
    ELSE IF in_em_file.kind = "directory" THEN Raise("IsADirectoryError")
    ELSE IF in_em_file.header = None THEN Raise("IndexError")
    ELSE LET h == Get(in_em_file.header)
             sized == h.phys_x > 0 /\ h.nx > 0
         IN  IF sized /\ (h.ny = 0 \/ h.nz = 0)
             THEN Raise("ZeroDivisionError")
             ELSE Return(ImageInfo(h.nx, h.ny, h.nz,
                        ToString(h.data_type_code),
                        em_dtype(h.data_type_code),
                        IF sized THEN Some(Quot(h.phys_x, h.nx, 0)) ELSE None,
                        IF sized THEN Some(Quot(h.phys_y, h.ny, 0)) ELSE None,
                        IF sized THEN Some(Quot(h.phys_z, h.nz, 0)) ELSE None))

get_em_info(img_name) ==
    IF img_name.kind = "missing"
    THEN Raise("FileNotFoundError")
    ELSE IF check_file_is_mrc(img_name) THEN get_mrc_info(img_name)
    ELSE IF check_file_is_tif(img_name) THEN get_tiff_info(img_name)
    ELSE Raise("ValueError")

(* ---- standard_transformations: the module's Axis objects ---- *)
\* The six Axis objects are created once, when the module is loaded; a
\* CoordinateSystem validates axes=[x_axis, z_axis] into a new list of the
\* same objects (instances of the field's class are taken as they are, not
\* copied), so a coordinate system holds references into the heap
AxisIds ==
    {"x_axis_logical", "y_axis_logical", "z_axis_logical",
     "x_axis_physical", "y_axis_physical", "z_axis_physical"}

AxisObject(r) ==
    CASE r = "x_axis_logical" -> x_axis_logical
      [] r = "y_axis_logical" -> y_axis_logical
      [] r = "z_axis_logical" -> z_axis_logical
      [] r = "x_axis_physical" -> x_axis_physical
      [] r = "y_axis_physical" -> y_axis_physical
      [] r = "z_axis_physical" -> z_axis_physical

\* the objects the coordinate system of each function refers to
AxisRefs(f) ==
    IF f = "logical_coords"
    THEN <<"x_axis_logical", "z_axis_logical">>
    ELSE <<"x_axis_physical", "z_axis_physical">>

\* a coordinate system as read through its references
View(cs, h) ==
    CoordinateSystem(cs.name, [k \in 1..Len(cs.axes) |-> h[cs.axes[k]]])

(* ---- state machine: one call per behaviour ---- *)
Init ==
    /\ pc = "idle"
    /\ op = "none"
    /\ args = <<>>
    /\ result = None
    /\ val = None
    /\ wire = None
    /\ decoded = None
    /\ heap = [r \in AxisIds |-> AxisObject(r)]
    /\ frames = <<>>

Call(name, a, r) ==
    /\ pc = "idle"
    /\ pc' = "done"
    /\ op' = name
    /\ args' = a
    /\ result' = r
    /\ UNCHANGED <<val, wire, decoded, heap, frames>>

CallGenerateFlip ==
    \E c \in CommonArgs, axis \in AxisArgs :
        Call("generate_flip_transformation", <<c, axis>>,
             generate_flip_transformation(c[1], c[2], c[3], axis))

CallGenerateTranslation ==
    \E c \in CommonArgs, dim \in 0..MaxLen, tv \in OptVectorArgs :
        Call("generate_translation_transformation", <<c, dim, tv>>,
             generate_translation_transformation(c[1], c[2], c[3], dim, tv))

CallGenerateRotation ==
    \E c \in CommonArgs, m \in OptMatrixArgs :
        Call("generate_rotation_transformation", <<c, m>>,
             generate_rotation_transformation(c[1], c[2], c[3], m))

CallGenerateScale ==
    \E c \in CommonArgs, scale \in ScaleArgs, dim \in DimArgs :
        Call("generate_scale_transformation", <<c, scale, dim>>,
             generate_scale_transformation(c[1], c[2], c[3], scale, dim))

CallImagePixelSize ==
    \E apix \in ApixArgs :
        Call("image_pixel_size", <<apix>>, image_pixel_size(apix))

CallImageSuperResolutionPixelSize ==
    \E apix \in ApixArgs :
        Call("image_super_resolution_pixel_size", <<apix>>,
             image_super_resolution_pixel_size(apix))

CallCalibration ==
    \E axis \in AxisArgs, tv \in OptVectorArgs :
        Call("aligned_calibration_image_to_micrograph", <<axis, tv>>,
             aligned_calibration_image_to_micrograph(axis, tv))

CallMovieFrame ==
    \E tv \in OptVectorArgs :
        Call("aligned_movie_frame_to_projection", <<tv>>,
             aligned_movie_frame_to_projection(tv))

CallProjection ==
    \E tv \in OptVectorArgs, m \in OptMatrixArgs :
        Call("aligned_projection_image_to_tilt_series", <<tv, m>>,
             aligned_projection_image_to_tilt_series(tv, m))

CallSubtomo ==
    \E m \in OptMatrixArgs, tv \in OptVectorArgs :
        Call("aligned_subtomo_to_tomogram", <<m, tv>>,
             aligned_subtomo_to_tomogram(m, tv))

CallMap ==
    \E scale \in ScaleArgs, m \in OptMatrixArgs, tv \in OptVectorArgs :
        Call("aligned_map_to_tomogram", <<scale, m, tv>>,
             aligned_map_to_tomogram(scale, m, tv))

CallAnnotation ==
    \E scale \in ScaleArgs, m \in OptMatrixArgs, tv \in OptVectorArgs :
        Call("aligned_annotation_to_tomogram", <<scale, m, tv>>,
             aligned_annotation_to_tomogram(scale, m, tv))

(* ---- round trip of a transformation value ---- *)
LeafCommon == { <<None, None, None>>, <<Some("t"), Some("in"), Some("out")>> }

LeafArgs ==
    UNION { { Identity(c[1], c[2], c[3]).value,
              MapAxis(c[1], c[2], c[3], None).value,
              MapAxis(c[1], c[2], c[3], Some(<<>>)).value,
              MapAxis(c[1], c[2], c[3],
                      Some(<<AxisNameMapping(Some("x"), Some("y")),
                             AxisNameMapping(None, Some("x"))>>)).value,
              Translation(c[1], c[2], c[3], None).value,
              Translation(c[1], c[2], c[3], Some(<<>>)).value,
              Translation(c[1], c[2], c[3], Some(<<1, 2>>)).value,
              Scale(c[1], c[2], c[3], None).value,
              Scale(c[1], c[2], c[3], Some(<<2, 2, 2>>)).value,
              Affine(c[1], c[2], c[3], None).value,
              Affine(c[1], c[2], c[3], Some(Ragged(3, 3, 0, 0))).value,
              Sequence(c[1], c[2], c[3], None).value,
              Sequence(c[1], c[2], c[3], Some(<<>>)).value } : c \in LeafCommon }

SiblingArgs ==
    { Affine(Some("a"), None, Some("out"), Some(Ragged(3, 3, 0, 0))).value }

Max(a, b) == IF a >= b THEN a ELSE b

RECURSIVE MaxOver(_, _)
MaxOver(f, n) == IF n = 0 THEN 0 ELSE Max(f[n], MaxOver(f, n - 1))

\* nesting depth of a transformation value
RECURSIVE Depth(_)
Depth(t) ==
    IF t.cls = "Sequence" /\ t.sequence # None /\ Len(Get(t.sequence)) > 0
    THEN 1 + MaxOver([i \in 1..Len(Get(t.sequence)) |-> Depth(Get(t.sequence)[i])],
                     Len(Get(t.sequence)))
    ELSE 0

\* a variant is constructed
Construct ==
    /\ pc = "idle"
    /\ \E t \in LeafArgs : val' = Some(t)
    /\ pc' = "built"
    /\ op' = "round_trip"
    /\ UNCHANGED <<args, result, wire, decoded, heap, frames>>

\* the value is placed in a new Sequence, alone or next to another step
Nest ==
    /\ pc = "built"
    /\ Depth(Get(val)) < MaxDepth
    /\ \E c \in LeafCommon, steps \in
              {<<Get(val)>>} \cup {<<Get(val), sib>> : sib \in SiblingArgs}
                             \cup {<<sib, Get(val)>> : sib \in SiblingArgs} :
           LET s == Sequence(c[1], c[2], c[3], Some(steps))
           IN  s.ok /\ val' = Some(s.value)
    /\ UNCHANGED <<pc, op, args, result, wire, decoded, heap, frames>>

\* value.model_dump()
Dump ==
    /\ pc = "built"
    /\ wire' = Some(model_dump(Get(val)))
    /\ pc' = "dumped"
    /\ UNCHANGED <<op, args, result, val, decoded, heap, frames>>

\* TypeAdapter(Transformation).validate_python(wire)
Validate ==
    /\ pc = "dumped"
    /\ decoded' = Some(validate_python(Get(wire)))
    /\ pc' = "validated"
    /\ UNCHANGED <<op, args, result, val, wire, heap, frames>>

(* ---- construction with keyword arguments, assignment, mutation ---- *)
TypeArgs == TransformationTags \cup {"bogus"}

\* keyword arguments / mapping entries: <<key, value>>, "" for no entry
PayloadArgs ==
    { <<"", None>>,
      <<"mapAxis", Some(<<>>)>>,
      <<"translation", Some(<<1, 2>>)>>,
      <<"scale", Some(<<2, 2, 2>>)>>,
      <<"affine", None>>,
      <<"affine", Some(Ragged(3, 3, 0, 0))>>,
      <<"affine", Some(Ragged(3, 3, 2, 2))>>,
      <<"affine", Some(Ragged(2, 2, 0, 0))>>,
      <<"affine", Some(Ragged(MaxLen, 3, 0, 0))>>,
      <<"sequence", Some(<<>>)>>,
      <<"extra", None>> }

\* the mapping with an optional type, an optional payload entry, an optional name
Mapping(type, p, named) ==
    [k \in (IF type = None THEN {} ELSE {"type"})
              \cup (IF p[1] = "" THEN {} ELSE {p[1]})
              \cup (IF named THEN {"name"} ELSE {}) |->
        IF k = "type" THEN Get(type)
        ELSE IF k = "name" THEN Some("t")
        ELSE p[2]]

CallConstruct ==
    \E cls \in VariantClasses, type \in {None} \cup {Some(x) : x \in TypeArgs},
       p \in PayloadArgs, named \in BOOLEAN :
        Call("construct", <<cls, Mapping(type, p, named)>>,
             construct(cls, Mapping(type, p, named)))

AssignArgs ==
    {<<"type", x>> : x \in TypeArgs}
        \cup {<<p[1], p[2]>> : p \in {q \in PayloadArgs : q[1] # ""}}
        \cup {<<"name", None>>}

\* instance.field = value, on an instance that nests no other
Assign ==
    /\ pc \in {"built", "assigned", "mutated"}
    /\ Depth(Get(val)) = 0
    /\ \E a \in AssignArgs :
          LET r == setattr(Get(val), a[1], a[2])
          IN  /\ args' = <<Get(val), a[1], a[2]>>
              /\ result' = r
              /\ val' = IF r.ok THEN Some(r.value) ELSE val
    /\ pc' = "assigned"
    /\ op' = "setattr"
    /\ UNCHANGED <<wire, decoded, heap, frames>>

(* ---- validation of arbitrary mappings as Transformation ---- *)
WirePayloadArgs ==
    PayloadArgs
        \cup { <<"sequence", Some(<<[type |-> "identity"]>>)>>,
               <<"sequence", Some(<<[name |-> None]>>)>>,
               <<"sequence", Some(<<[type |-> "scale", translation |-> None]>>)>> }

CallValidatePython ==
    \E type \in {None} \cup {Some(x) : x \in TypeArgs \cup Tags2D},
       p \in WirePayloadArgs, named \in BOOLEAN :
        Call("validate_python", <<Mapping(type, p, named)>>,
             validate_python(Mapping(type, p, named)))

(* ---- validation of mappings as Axis, CoordinateSystem, containers ---- *)
AxisX == [name |-> "x"]
AxisY == [name |-> "y", axis_unit |-> Some("pixel/voxel")]
AxisMappings ==
    {AxisX, AxisY, [axis_unit |-> None], [name |-> "x", colour |-> None]}

\* lists of axes: none, distinct, repeated; one without a name, one with a
\* key that is no field
AxesArgs ==
    UNION {[1..n -> {AxisX, AxisY}] : n \in 0..MaxAxes}
        \cup {<<[axis_unit |-> None]>>, <<[name |-> "x", colour |-> None]>>}

CoordinateSystemMappings ==
    {[k \in (IF named THEN {"name"} ELSE {})
              \cup (IF axes = None THEN {} ELSE {"axes"})
              \cup (IF extra THEN {"origin"} ELSE {}) |->
         IF k = "name" THEN "cs"
         ELSE IF k = "axes" THEN Get(axes)
         ELSE None] :
       named \in BOOLEAN, extra \in BOOLEAN,
       axes \in {None} \cup {Some(a) : a \in AxesArgs}}

ContainerMappings ==
    { [coordinate_transformations |-> Some(<<[type |-> "identity"]>>)],
      [coordinate_transformations |->
           Some(<<[type |-> "translation", affine |-> None]>>)],
      [coordinate_transformations |-> None, colour |-> None],
      [coordinate_systems |-> Some(<<[name |-> "cs", axes |-> <<AxisX>>]>>)],
      [coordinate_systems |->
           Some(<<[name |-> "cs", axes |-> <<AxisX>>, origin |-> None]>>)],
      [width |-> None] }

CallModelValidate ==
    \E a \in {<<"Axis", d>> : d \in AxisMappings}
               \cup {<<"CoordinateSystem", d>> : d \in CoordinateSystemMappings}
               \cup (ContainerClasses \X ContainerMappings) :
        Call("model_validate", a, model_validate(a[1], a[2]))

\* a container holding instances of the variants
ContainerArgs ==
    {[k \in FieldsOf(cls) \cup {"cls"} |->
         IF k = "cls" THEN cls
         ELSE IF k = "coordinate_transformations" THEN ts
         ELSE None] :
       cls \in ContainerClasses,
       ts \in {None, Some(<<>>)} \cup {Some(<<t>>) : t \in LeafArgs}
                 \cup {Some(<<t, u>>) : t \in SiblingArgs, u \in LeafArgs}}

\* model_validate(container.model_dump()) with the container's own class
ContainerRoundTrip ==
    \E c \in ContainerArgs :
        Call("container_round_trip", <<c>>,
             validate_container(c.cls, dump_container(c)))

(* ---- validation of vectors and matrices ---- *)
CallValidateVector ==
    \E n \in {2, 3}, v \in VectorArgs :
        Call("validate_Vector", <<n, v>>, validate_Vector(n, v))

CallValidateMatrix ==
    \E n \in {2, 3}, m \in MatrixArgs :
        Call("validate_Matrix", <<n, m>>, validate_Matrix(n, m))

(* ---- in-place change of a payload list ---- *)
\* instance.affine.append(row), instance.affine.pop(),
\* instance.affine[-1].append(x): the list object changes, no validation runs;
\* one change of a newly built instance, before any assignment
MutateInPlace ==
    /\ pc = "built"
    /\ Get(val).cls = "Affine"
    /\ Get(val).affine # None
    /\ LET m == Get(Get(val).affine)
           n == Len(m)
       IN  \E how \in {"append", "pop", "append_to_row"} :
             /\ how = "append" => n < MaxLen
             /\ how = "pop" => n > 0
             /\ how = "append_to_row" => (n > 0 /\ Len(m[n]) < MaxLen)
             /\ val' = Some([Get(val) EXCEPT !.affine = Some(
                    CASE how = "append" -> Append(m, <<0, 0, 0>>)
                      [] how = "pop" -> SubSeq(m, 1, n - 1)
                      [] how = "append_to_row" ->
                             [m EXCEPT ![n] = Append(m[n], 0)])])
             /\ args' = <<Get(val), how>>
    /\ pc' = "mutated"
    /\ op' = "mutate"
    /\ result' = Return(None)
    /\ UNCHANGED <<wire, decoded, heap, frames>>

(* ---- calls of the image readers ---- *)
MrcHeaders ==
    {[nx |-> 4, ny |-> 3, nz |-> nz, mode |-> mode,
      cella_x |-> 8, cella_y |-> 6, mx |-> mx, my |-> 3] :
        nz \in {1, 2}, mode \in {2, 5}, mx \in {0, 4}}

Images ==
    {[format |-> f, width |-> 5, height |-> 6, n_frames |-> n,
      mode |-> m, dpi |-> d] :
        f \in {"TIFF", "PNG"}, n \in {1, 7}, m \in {"L", "XYZ"},
        d \in {None, Some(72)}}

\* nx, ny, nz and the three physical sizes are signed 32-bit integers
EmHeaders ==
    {[data_type_code |-> c, nx |-> nx, ny |-> ny, nz |-> nz,
      phys_x |-> px, phys_y |-> py, phys_z |-> 3] :
        c \in {1, 9}, nx \in {-1, 0, 2}, ny \in {-1, 0, 2}, nz \in {0, 2},
        px \in {-1, 0, 3}, py \in {0, 3}}

EmHeader == [data_type_code |-> 5, nx |-> 2, ny |-> 2, nz |-> 2,
             phys_x |-> 3, phys_y |-> 3, phys_z |-> 3]

\* paths: missing, a directory, an empty file, and files that are any
\* combination of MRC, PIL image and neither
PathArgs ==
    {File("missing", None, None, None), File("directory", None, None, None),
     File("file", None, None, None)}
        \cup {File("file", mrc, image, Some(EmHeader)) :
                mrc \in {None} \cup {Some(h) : h \in MrcHeaders},
                image \in {None} \cup {Some(i) : i \in Images}}

CallGetImageDims ==
    \E f \in PathArgs : Call("get_image_dims", <<f>>, get_image_dims(f))

CallGetEmInfo ==
    \E f \in PathArgs : Call("get_em_info", <<f>>, get_em_info(f))

CallGetEmFileInfo ==
    \E f \in PathArgs \cup {File("file", None, None, Some(h)) : h \in EmHeaders} :
        Call("get_em_file_info", <<f>>, get_em_file_info(f))

(* ---- coordinate systems that share the module's Axis objects ---- *)
\* logical_coords(name) or physical_coords(name): the caller keeps the result
CallCoords ==
    /\ pc \in {"idle", "frames", "changed"}
    /\ Len(frames) < MaxFrames
    /\ \E f \in {"logical_coords", "physical_coords"}, name \in {"a", "b"} :
         LET cs == [name |-> name, axes |-> AxisRefs(f)]
         IN  /\ frames' = Append(frames, cs)
             /\ op' = f
             /\ args' = <<name>>
             /\ result' = Return(View(cs, heap))
    /\ pc' = IF pc = "changed" THEN "changed" ELSE "frames"
    /\ UNCHANGED <<val, wire, decoded, heap>>

\* frames[i].axes[k].field = value (validate_assignment accepts a str, and
\* None for axis_unit); one such change per behaviour
SetAxisField ==
    /\ pc = "frames"
    /\ \E i \in 1..Len(frames) :
         \E k \in 1..Len(frames[i].axes),
            a \in {<<"name", "renamed">>, <<"axis_unit", None>>} :
             /\ heap' = [heap EXCEPT ![frames[i].axes[k]][a[1]] = a[2]]
             /\ args' = <<i, k, a[1], a[2]>>
    /\ pc' = "changed"
    /\ op' = "setattr_axis"
    /\ result' = Return(None)
    /\ UNCHANGED <<val, wire, decoded, frames>>

Next ==
    \/ CallGenerateFlip
    \/ CallGenerateTranslation
    \/ CallGenerateRotation
    \/ CallGenerateScale
    \/ CallImagePixelSize
    \/ CallImageSuperResolutionPixelSize
    \/ CallCalibration
    \/ CallMovieFrame
    \/ CallProjection
    \/ CallSubtomo
    \/ CallMap
    \/ CallAnnotation
    \/ Construct
    \/ Nest
    \/ Dump
    \/ Validate
    \/ CallConstruct
    \/ Assign
    \/ CallValidatePython
    \/ CallModelValidate
    \/ ContainerRoundTrip
    \/ CallValidateVector
    \/ CallValidateMatrix
    \/ MutateInPlace
    \/ CallGetImageDims
    \/ CallGetEmInfo
    \/ CallGetEmFileInfo
    \/ CallCoords
    \/ SetAxisField

Spec == Init /\ [][Next]_vars

(* ======================================================================= *)
(* Properties                                                              *)
(* ======================================================================= *)

MultiStepOps ==
    {"aligned_calibration_image_to_micrograph",
     "aligned_projection_image_to_tilt_series",
     "aligned_subtomo_to_tomogram",
     "aligned_map_to_tomogram",
     "aligned_annotation_to_tomogram"}

Returned == pc = "done" /\ result.ok
Raised == pc = "done" /\ ~result.ok
ReturnedBy(o) == pc = "done" /\ op = o /\ result.ok

\* the parts of a pipeline builder's result
Pipe == result.value[1]
Steps == Get(Pipe.sequence)
Coords == result.value[2]

IsSquare(m, n) == Len(m) = n /\ \A i \in 1..Len(m) : Len(m[i]) = n
Zeros(n) == [i \in 1..n |-> 0]

\* C1: in every Sequence a multi-step builder returns, the first step starts
\* at the Sequence's input, each step's output is the next step's input, and
\* the last step ends at the Sequence's output
C1_Chain ==
    (Returned /\ op \in MultiStepOps) =>
        /\ Steps[1].input = Pipe.input
        /\ \A i \in 1..(Len(Steps) - 1) : Steps[i].output = Steps[i + 1].input
        /\ Steps[Len(Steps)].output = Pipe.output

C1_Witness ==
    /\ ReturnedBy("aligned_subtomo_to_tomogram")
    /\ Len(Steps) = 2
    /\ Steps[1].output = Some("subtomo_rotated")
    /\ Steps[2].input = Some("subtomo_rotated")

\* C2: a builder that returns a list of coordinate systems returns one per
\* step, in step order: the k-th one is named as the k-th step's output
C2_CoordsFollowSteps ==
    /\ (Returned /\ op \in MultiStepOps) =>
          /\ Len(Coords) = Len(Steps)
          /\ \A k \in 1..Len(Coords) : Some(Coords[k].name) = Steps[k].output
    /\ ReturnedBy("aligned_movie_frame_to_projection") =>
          /\ Len(Coords) = 1
          /\ Some(Coords[1].name) = Pipe.output

C2_Witness ==
    /\ ReturnedBy("aligned_map_to_tomogram")
    /\ Len(Coords) = 3
    /\ Coords[1].name = "map_scaled"
    /\ Coords[2].name = "map_rotated"
    /\ Coords[3].name = "map_aligned"

RotationClasses == {"Rotation2D", "Affine", "Identity"}

C4_RotationDispatch ==
    (pc = "done" /\ op = "generate_rotation_transformation") =>
        LET c == args[1]
            m == args[2]
        IN  /\ result.ok =>
                 /\ result.value.name = c[1]
                 /\ result.value.input = c[2]
                 /\ result.value.output = c[3]
            /\ IF m = None
               THEN result.ok /\ result.value.cls = "Identity"
               ELSE IF IsSquare(Get(m), 3)
               THEN /\ result.ok
                    /\ result.value.cls = "Affine"
                    /\ result.value.affine = m
               ELSE IF IsSquare(Get(m), 2)
               THEN result.ok /\ result.value.cls = "Rotation2D"
               ELSE IsValueError(result)

C4_Witness ==
    /\ pc = "done" /\ op = "generate_rotation_transformation"
    /\ args[2] # None
    /\ Len(Get(args[2])) = 4
    /\ IsValueError(result)

\* C5: generate_translation_transformation gives the zero vector of length
\* dim when no vector is given, the given vector when its length is dim, and
\* a value error when its length is not dim
C5_Translation ==
    (pc = "done" /\ op = "generate_translation_transformation") =>
        LET dim == args[2]
            tv == args[3]
        IN  IF tv = None
            THEN result.ok /\ result.value.translation = Some(Zeros(dim))
            ELSE IF Len(Get(tv)) = dim
            THEN result.ok /\ result.value.translation = tv
            ELSE IsValueError(result) /\ "value" \notin DOMAIN result

C5_Witness ==
    /\ pc = "done" /\ op = "generate_translation_transformation"
    /\ args[2] = 2
    /\ args[3] = Some(<<1>>)
    /\ IsValueError(result)

\* C6: generate_scale_transformation gives dim entries all equal to scale,
\* all 0 when scale is None, and a value error when dim is None
C6_Scale ==
    (pc = "done" /\ op = "generate_scale_transformation") =>
        LET scale == args[2]
            dim == args[3]
        IN  IF dim = None
            THEN IsValueError(result)
            ELSE /\ result.ok
                 /\ Len(Get(result.value.scale)) = Get(dim)
                 /\ \A i \in 1..Get(dim) :
                       Get(result.value.scale)[i] =
                           (IF scale = None THEN 0 ELSE Get(scale))

C6_Witness ==
    /\ ReturnedBy("generate_scale_transformation")
    /\ args[2] = None
    /\ args[3] = Some(3)
    /\ result.value.scale = Some(<<0, 0, 0>>)

\* C7: generate_flip_transformation gives a Flip2D with [[1,0],[0,-1]] for
\* "x", [[-1,0],[0,1]] for "y", [[1,0],[0,1]] for no axis, name, input and
\* output passed through, and a value error for every other selector
C7_Flip ==
    (pc = "done" /\ op = "generate_flip_transformation") =>
        LET c == args[1]
            axis == args[2]
            expected ==
                IF axis = None THEN << <<1, 0>>, <<0, 1>> >>
                ELSE IF axis = Some("x") THEN << <<1, 0>>, <<0, -1>> >>
                ELSE << <<-1, 0>>, <<0, 1>> >>
        IN  IF axis \in {None, Some("x"), Some("y")}
            THEN /\ result.ok
                 /\ result.value.cls = "Flip2D"
                 /\ result.value.flip2d = Some(expected)
                 /\ result.value.name = c[1]
                 /\ result.value.input = c[2]
                 /\ result.value.output = c[3]
            ELSE IsValueError(result) /\ "value" \notin DOMAIN result

C7_Witness ==
    /\ ReturnedBy("generate_flip_transformation")
    /\ args[2] = Some("x")
    /\ result.value.flip2d = Some(<< <<1, 0>>, <<0, -1>> >>)

\* C8: an omitted optional geometric parameter is replaced by its neutral
\* default in the returned pipeline: identity flip matrix, Identity step,
\* zero translation of the pipeline's dimensionality, scale [0, 0, 0]
C8_NeutralDefaults ==
    /\ ReturnedBy("aligned_calibration_image_to_micrograph") =>
          /\ args[1] = None => Steps[1].flip2d = Some(<< <<1, 0>>, <<0, 1>> >>)
          /\ args[2] = None => Steps[2].translation = Some(Zeros(2))
    /\ ReturnedBy("aligned_movie_frame_to_projection") =>
          /\ args[1] = None => Pipe.translation = Some(Zeros(2))
    /\ ReturnedBy("aligned_projection_image_to_tilt_series") =>
          /\ args[1] = None => Steps[1].translation = Some(Zeros(2))
          /\ args[2] = None => Steps[2].cls = "Identity"
    /\ ReturnedBy("aligned_subtomo_to_tomogram") =>
          /\ args[1] = None => Steps[1].cls = "Identity"
          /\ args[2] = None => Steps[2].translation = Some(Zeros(3))
    /\ (ReturnedBy("aligned_map_to_tomogram")
           \/ ReturnedBy("aligned_annotation_to_tomogram")) =>
          /\ args[1] = None => Steps[1].scale = Some(<<0, 0, 0>>)
          /\ args[2] = None => Steps[2].cls = "Identity"
          /\ args[3] = None => Steps[3].translation = Some(Zeros(3))

InvalidFlip(axis) == axis \notin {None, Some("x"), Some("y")}
InvalidTranslation(tv, dim) == tv # None /\ Len(Get(tv)) # dim
InvalidRotation(m) == m # None /\ ~IsSquare(Get(m), 2) /\ ~IsSquare(Get(m), 3)

InvalidArgs ==
    CASE op = "aligned_calibration_image_to_micrograph" ->
            InvalidFlip(args[1]) \/ InvalidTranslation(args[2], 2)
      [] op = "aligned_projection_image_to_tilt_series" ->
            InvalidTranslation(args[1], 2) \/ InvalidRotation(args[2])
      [] op = "aligned_subtomo_to_tomogram" ->
            InvalidRotation(args[1]) \/ InvalidTranslation(args[2], 3)
      [] op \in {"aligned_map_to_tomogram", "aligned_annotation_to_tomogram"} ->
            InvalidRotation(args[2]) \/ InvalidTranslation(args[3], 3)

StepCount ==
    IF op \in {"aligned_map_to_tomogram", "aligned_annotation_to_tomogram"}
    THEN 3 ELSE 2

C10_RoundTrip ==
    pc = "validated" =>
        /\ Get(decoded).ok
        /\ Get(decoded).value.cls = Get(val).cls
        /\ Get(decoded).value.type = Get(val).type
        /\ Get(decoded).value = Get(val)

C10_Witness ==
    /\ pc = "validated"
    /\ Depth(Get(val)) = 2
    /\ Get(decoded).ok
    /\ Get(decoded).value.cls = "Sequence"
    /\ Get(Get(decoded).value.sequence)[1].cls = "Sequence"

VariantLiteral ==
    [Identity |-> "identity", MapAxis |-> "mapAxis",
     Translation |-> "translation", Scale |-> "scale", Affine |-> "affine",
     Sequence |-> "sequence"]

\* C11: the type of a variant instance is always the variant's literal:
\* construction with another type fails, construction without type gives the
\* literal, assigning another type fails and leaves the instance unchanged
C11_TypeLiteral ==
    /\ val # None => Get(val).type = VariantLiteral[Get(val).cls]
    /\ (pc = "done" /\ op = "construct") =>
          LET cls == args[1]
              d == args[2]
          IN  /\ ("type" \in DOMAIN d /\ d.type # VariantLiteral[cls]) =>
                     IsValueError(result)
              /\ result.ok =>
                     /\ result.value.cls = cls
                     /\ result.value.type = VariantLiteral[cls]
    /\ (pc = "assigned" /\ args[2] = "type") =>
          IF args[3] = VariantLiteral[args[1].cls]
          THEN result.ok /\ val = Some(args[1])
          ELSE IsValueError(result) /\ val = Some(args[1])

C11_Witness ==
    /\ pc = "assigned"
    /\ args[2] = "type"
    /\ args[1].cls = "Affine"
    /\ args[3] = "scale"
    /\ IsValueError(result)
    /\ Get(val).type = "affine"

VariantOfLiteral ==
    [identity |-> "Identity", mapAxis |-> "MapAxis",
     translation |-> "Translation", scale |-> "Scale", affine |-> "Affine",
     sequence |-> "Sequence"]

\* C12: validation through the Transformation union selects the variant by
\* the type entry alone: a mapping whose type is missing or is no literal of
\* the union is rejected; a mapping whose type names variant V is decoded as
\* V or rejected, at every level of nesting
C12_Discriminator ==
    (pc = "done" /\ op = "validate_python") =>
        LET d == args[1]
        IN  /\ ("type" \notin DOMAIN d \/ d.type \notin DOMAIN VariantOfLiteral)
                   => IsValueError(result)
            /\ ("sequence" \in DOMAIN d /\ d.sequence # None
                   /\ \E i \in 1..Len(Get(d.sequence)) :
                         "type" \notin DOMAIN Get(d.sequence)[i])
                   => IsValueError(result)
            /\ result.ok =>
                   /\ result.value.cls = VariantOfLiteral[d.type]
                   /\ result.value.type = d.type
                   /\ (result.value.cls = "Sequence"
                          /\ result.value.sequence # None) =>
                         \A i \in 1..Len(Get(result.value.sequence)) :
                            Get(result.value.sequence)[i].cls =
                               VariantOfLiteral[Get(d.sequence)[i].type]

C12_Witness ==
    /\ pc = "done" /\ op = "validate_python"
    /\ "type" \in DOMAIN args[1]
    /\ args[1].type = "sequence"
    /\ "sequence" \in DOMAIN args[1]
    /\ result.ok
    /\ Get(result.value.sequence) # <<>>
    /\ Get(result.value.sequence)[1].cls = "Identity"

\* the keys of a mapping that are no fields of its class, nested mappings
\* of a coordinate system or container included
HasExtraKey(cls, d) ==
    \/ ~(DOMAIN d \subseteq FieldsOf(cls))
    \/ /\ cls = "CoordinateSystem"
       /\ "axes" \in DOMAIN d
       /\ \E i \in 1..Len(d.axes) :
             ~(DOMAIN d.axes[i] \subseteq FieldsOf("Axis"))
    \/ /\ cls \in ContainerClasses
       /\ "coordinate_systems" \in DOMAIN d
       /\ d.coordinate_systems # None
       /\ \E i \in 1..Len(Get(d.coordinate_systems)) :
             ~(DOMAIN Get(d.coordinate_systems)[i]
                  \subseteq FieldsOf("CoordinateSystem"))

\* C13: field sets are strict: constructing or validating a coordinate
\* system, an axis, a transformation variant or a container from a mapping
\* with a key that is no declared field of the class raises, and so yields
\* no object (a mapping of type "translation" with an "affine" key included)
C13_ExtraForbidden ==
    /\ (pc = "done" /\ op = "construct"
           /\ ~(DOMAIN args[2] \subseteq FieldsOf(args[1])))
          => IsValueError(result) /\ DOMAIN result = {"ok", "err"}
    /\ (pc = "done" /\ op = "validate_python"
           /\ "type" \in DOMAIN args[1]
           /\ args[1].type \in DOMAIN VariantOfLiteral
           /\ \/ ~(DOMAIN args[1]
                      \subseteq FieldsOf(VariantOfLiteral[args[1].type]))
              \/ /\ "sequence" \in DOMAIN args[1]
                 /\ args[1].sequence # None
                 /\ \E i \in 1..Len(Get(args[1].sequence)) :
                       LET e == Get(args[1].sequence)[i]
                       IN  /\ "type" \in DOMAIN e
                           /\ e.type \in DOMAIN VariantOfLiteral
                           /\ ~(DOMAIN e \subseteq
                                   FieldsOf(VariantOfLiteral[e.type])))
          => IsValueError(result) /\ DOMAIN result = {"ok", "err"}
    /\ (pc = "done" /\ op = "model_validate"
           /\ HasExtraKey(args[1], args[2]))
          => IsValueError(result) /\ DOMAIN result = {"ok", "err"}

C13_Witness ==
    /\ pc = "done" /\ op = "validate_python"
    /\ "type" \in DOMAIN args[1]
    /\ args[1].type = "translation"
    /\ "affine" \in DOMAIN args[1]
    /\ IsValueError(result)

\* C14: a sequence of exactly 2 (resp. 3) numbers validates as Vector2D
\* (resp. Vector3D) with the same elements in the same order; a sequence of
\* any other length is rejected
C14_VectorLength ==
    (pc = "done" /\ op = "validate_Vector") =>
        LET n == args[1]
            v == args[2]
        IN  /\ Len(v) = n =>
                  /\ result.ok
                  /\ Len(result.value) = n
                  /\ \A i \in 1..n : result.value[i] = v[i]
            /\ Len(v) # n => IsValueError(result)

C14_Witness ==
    /\ pc = "done" /\ op = "validate_Vector"
    /\ args = <<3, <<1, 2, 3>>>>
    /\ result.ok
    /\ result.value = <<1, 2, 3>>

\* an Affine holds no payload or 3 rows of 3 numbers
AffineShape(t) ==
    t.cls = "Affine" => (t.affine = None \/ IsSquare(Get(t.affine), 3))

C16_LengthAlways ==
    (pc \in {"built", "assigned", "mutated"}) => AffineShape(Get(val))

\* C16: every assignment to a length-constrained field either raises and
\* leaves the instance as it was, or leaves the field within its constraint;
\* this holds whatever the instance held before, a payload list changed in
\* place included (such a change is not validated)
C16_AssignmentKeepsLength ==
    [][(Assign /\ args'[2] = "affine") =>
          \/ IsValueError(result') /\ val' = val
          \/ result'.ok /\ AffineShape(Get(val'))]_vars

\* an assignment of a valid matrix to an instance whose payload had been
\* changed in place to a non-square list
C16_Witness ==
    /\ pc = "assigned"
    /\ args[2] = "affine"
    /\ args[1].cls = "Affine"
    /\ args[1].affine # None
    /\ ~IsSquare(Get(args[1].affine), 3)
    /\ result.ok
    /\ AffineShape(Get(val))

\* C17: constructing a CoordinateSystem raises if axes is empty and raises
\* if name is absent, so every CoordinateSystem has a name and at least one
\* axis
C17_NameAndAxes ==
    (pc = "done" /\ op = "model_validate" /\ args[1] = "CoordinateSystem") =>
        LET d == args[2]
        IN  /\ "name" \notin DOMAIN d => IsValueError(result)
            /\ ("axes" \in DOMAIN d /\ Len(d.axes) = 0) => IsValueError(result)
            /\ result.ok => Len(result.value.axes) >= 1

\* C19: the axis names of a CoordinateSystem are pairwise distinct:
\* constructing one whose axes hold two Axis values of the same name raises
C19_DistinctAxisNames ==
    (pc = "done" /\ op = "model_validate" /\ args[1] = "CoordinateSystem") =>
        LET d == args[2]
        IN  /\ ("axes" \in DOMAIN d
                  /\ \E i, j \in 1..Len(d.axes) :
                        /\ i # j
                        /\ "name" \in DOMAIN d.axes[i]
                        /\ "name" \in DOMAIN d.axes[j]
                        /\ d.axes[i].name = d.axes[j].name)
                  => IsValueError(result)
            /\ result.ok =>
                  \A i, j \in 1..Len(result.value.axes) :
                     i # j => result.value.axes[i].name
                                 # result.value.axes[j].name

\* C18: every container that owns coordinate_transformations holds its
\* elements as the discriminated union, so serializing the container and
\* validating the result gives back each element with its variant and payload
C18_ContainerRoundTrip ==
    (pc = "done" /\ op = "container_round_trip") =>
        /\ result.ok
        /\ result.value.coordinate_transformations
              = args[1].coordinate_transformations

\* C21: image_pixel_size(apix) and image_super_resolution_pixel_size(apix)
\* each return a Scale of payload [apix, apix] from the base logical frame
\* to the one returned coordinate system, which is named after the builder
\* and whose axes are in Angstrom
C21_PixelSize ==
    (pc = "done"
        /\ op \in {"image_pixel_size", "image_super_resolution_pixel_size"}) =>
        /\ result.ok
        /\ result.value[1].cls = "Scale"
        /\ result.value[1].scale = Some(<<args[1], args[1]>>)
        /\ result.value[1].input = Some("base_logical_coordinates")
        /\ result.value[1].output = Some(result.value[2].name)
        /\ result.value[2].cls = "CoordinateSystem"
        /\ result.value[2].name = op
        /\ Len(result.value[2].axes) > 0
        /\ \A i \in 1..Len(result.value[2].axes) :
              result.value[2].axes[i].axis_unit = Some("Angstrom")

C21_Witness ==
    /\ pc = "done"
    /\ op = "image_super_resolution_pixel_size"
    /\ args = <<2>>
    /\ result.ok
    /\ result.value[1].scale = Some(<<2, 2>>)
    /\ result.value[2].name = "image_super_resolution_pixel_size"

\* C22: get_image_dims raises ValueError when the path is not an existing
\* file; otherwise it returns the MRC header's (nx, ny, nz) if the file is a
\* valid MRC, else (width, height, number of frames) if it is a valid TIFF,
\* else raises ValueError; a file that passes the MRC check is never read
\* as TIFF
C22_ImageDims ==
    (pc = "done" /\ op = "get_image_dims") =>
        LET f == args[1]
            tiff == f.image # None /\ Get(f.image).format = "TIFF"
        IN  /\ f.kind # "file" => (~result.ok /\ result.err = "ValueError")
            /\ (f.kind = "file" /\ f.mrc # None) =>
                   /\ result.ok
                   /\ result.value =
                         <<Get(f.mrc).nx, Get(f.mrc).ny, Get(f.mrc).nz>>
            /\ (f.kind = "file" /\ f.mrc = None /\ tiff) =>
                   /\ result.ok
                   /\ result.value = <<Get(f.image).width, Get(f.image).height,
                                       Get(f.image).n_frames>>
            /\ (f.kind = "file" /\ f.mrc = None /\ ~tiff) =>
                   (~result.ok /\ result.err = "ValueError")

\* a file that passes both checks is read as MRC
C22_Witness ==
    /\ pc = "done" /\ op = "get_image_dims"
    /\ args[1].kind = "file"
    /\ args[1].mrc # None
    /\ args[1].image # None
    /\ Get(args[1].image).format = "TIFF"
    /\ result.ok
    /\ result.value = <<4, 3, 2>>

\* a file with the 512-byte EM header that is neither MRC nor a PIL image
IsEmFile(f) ==
    f.kind = "file" /\ f.header # None /\ f.mrc = None /\ f.image = None

\* C23: get_em_info returns an ImageInfo for every existing file that is a
\* valid MRC, EM or TIFF image, raises FileNotFoundError when the path does
\* not exist, and raises ValueError only for existing files that are none of
\* the three
C23_EmInfo ==
    (pc = "done" /\ op = "get_em_info") =>
        LET f == args[1]
            mrc == f.kind = "file" /\ f.mrc # None
            tiff == f.kind = "file" /\ f.image # None
                       /\ Get(f.image).format = "TIFF"
        IN  /\ f.kind = "missing" =>
                   (~result.ok /\ result.err = "FileNotFoundError")
            /\ (mrc \/ tiff \/ IsEmFile(f)) =>
                   (result.ok /\ result.value.cls = "ImageInfo")
            /\ (~result.ok /\ result.err = "ValueError") =>
                   (f.kind # "missing" /\ ~mrc /\ ~tiff /\ ~IsEmFile(f))

\* C30: get_em_file_info never divides by zero: for every 512-byte header
\* it returns an ImageInfo whose sizes are the header's nx, ny, nz; when the
\* pixel sizes are computed (phys_x > 0 and nx > 0) the divisors nx, ny, nz
\* are non-zero, and otherwise the three pixel sizes are absent
C30_NoDivisionByZero ==
    (pc = "done" /\ op = "get_em_file_info" /\ args[1].kind = "file"
        /\ args[1].header # None) =>
        LET h == Get(args[1].header)
        IN  /\ result.ok
            /\ result.value.size_x = h.nx
            /\ result.value.size_y = h.ny
            /\ result.value.size_z = h.nz
            /\ (h.phys_x > 0 /\ h.nx > 0) =>
                   /\ h.ny # 0 /\ h.nz # 0
                   /\ result.value.apix_x = Some(Quot(h.phys_x, h.nx, 0))
                   /\ result.value.apix_y = Some(Quot(h.phys_y, h.ny, 0))
                   /\ result.value.apix_z = Some(Quot(h.phys_z, h.nz, 0))
            /\ ~(h.phys_x > 0 /\ h.nx > 0) =>
                   /\ result.value.apix_x = None
                   /\ result.value.apix_y = None
                   /\ result.value.apix_z = None

\* the letter the composition table gives a step
StepKind(t) ==
    CASE t.cls = "Flip2D" -> "F"
      [] t.cls = "Translation" -> "T"
      [] t.cls = "Scale" -> "S"
      [] t.cls \in RotationClasses -> "R"
      [] OTHER -> "?"

StepKinds == [i \in 1..Len(Steps) |-> StepKind(Steps[i])]

\* C24: the pipelines are composed as the composition table says:
\* calibration image = flip, rotation; movie frame = translation;
\* projection image = translation, rotation; subtomogram = rotation,
\* translation; map = scale, rotation, translation; annotation = scale,
\* translation
C24_CompositionTable ==
    /\ ReturnedBy("aligned_calibration_image_to_micrograph") =>
          StepKinds = <<"F", "R">>
    /\ ReturnedBy("aligned_movie_frame_to_projection") =>
          StepKind(Pipe) = "T"
    /\ ReturnedBy("aligned_projection_image_to_tilt_series") =>
          StepKinds = <<"T", "R">>
    /\ ReturnedBy("aligned_subtomo_to_tomogram") => StepKinds = <<"R", "T">>
    /\ ReturnedBy("aligned_map_to_tomogram") => StepKinds = <<"S", "R", "T">>
    /\ ReturnedBy("aligned_annotation_to_tomogram") => StepKinds = <<"S", "T">>

Builders2D ==
    {"aligned_calibration_image_to_micrograph",
     "aligned_movie_frame_to_projection",
     "aligned_projection_image_to_tilt_series"}

Builders3D ==
    {"aligned_subtomo_to_tomogram", "aligned_map_to_tomogram",
     "aligned_annotation_to_tomogram"}

\* the transformation a builder returned and the steps nested in it
AllSteps == IF Pipe.cls = "Sequence" THEN <<Pipe>> \o Steps ELSE <<Pipe>>

\* the vector and matrix payloads of t are of dimension n
PayloadOfDim(t, n) ==
    /\ (t.cls = "Translation" /\ t.translation # None)
          => Len(Get(t.translation)) = n
    /\ (t.cls = "Scale" /\ t.scale # None) => Len(Get(t.scale)) = n
    /\ (t.cls = "Affine" /\ t.affine # None) => IsSquare(Get(t.affine), n)
    /\ (t.cls = "Rotation2D" /\ t.rotation2d # None)
          => IsSquare(Get(t.rotation2d), n)
    /\ (t.cls = "Flip2D" /\ t.flip2d # None) => IsSquare(Get(t.flip2d), n)

\* the vector and the matrix given to a builder, None where it takes none
VectorGiven ==
    CASE op = "aligned_movie_frame_to_projection" -> args[1]
      [] op \in {"aligned_calibration_image_to_micrograph",
                 "aligned_subtomo_to_tomogram"} -> args[2]
      [] op = "aligned_projection_image_to_tilt_series" -> args[1]
      [] OTHER -> args[3]

MatrixGiven ==
    CASE op = "aligned_projection_image_to_tilt_series" -> args[2]
      [] op = "aligned_subtomo_to_tomogram" -> args[1]
      [] op \in {"aligned_map_to_tomogram",
                 "aligned_annotation_to_tomogram"} -> args[2]
      [] OTHER -> None

\* C25: every pipeline a builder returns is of one dimension: vectors of
\* length 2 and 2x2 matrices from the 2-D builders, vectors of length 3 and
\* 3x3 matrices from the 3-D builders; a call whose vector or matrix is of
\* the other dimension fails
C25_OneDimension ==
    (pc = "done" /\ op \in Builders2D \cup Builders3D) =>
        LET n == IF op \in Builders2D THEN 2 ELSE 3
        IN  /\ result.ok =>
                  \A i \in 1..Len(AllSteps) : PayloadOfDim(AllSteps[i], n)
            /\ (VectorGiven # None /\ Len(Get(VectorGiven)) = 5 - n)
                  => ~result.ok
            /\ (MatrixGiven # None /\ IsSquare(Get(MatrixGiven), 5 - n))
                  => ~result.ok

PixelSizeOps == {"image_pixel_size", "image_super_resolution_pixel_size"}

\* the coordinate systems a builder returned, as a list
CoordList == IF op \in PixelSizeOps THEN <<Coords>> ELSE Coords

\* the steps of the returned pipeline: the elements of a Sequence, or the
\* one transformation
LeafSteps == IF Pipe.cls = "Sequence" THEN Steps ELSE <<Pipe>>

\* C26: in every successful builder result, every frame name used as input
\* or output by the returned transformation or a step nested in it is
\* "base_logical_coordinates" or the name of a returned coordinate system;
\* every returned coordinate system is the output of exactly one step; the
\* base frame is not among the returned ones and is the pipeline's input
C26_ReferentialIntegrity ==
    (Returned /\ op \in Builders2D \cup Builders3D \cup PixelSizeOps) =>
        LET names == {"base_logical_coordinates"}
                        \cup {CoordList[k].name : k \in 1..Len(CoordList)}
        IN  /\ \A i \in 1..Len(AllSteps) :
                  /\ AllSteps[i].input # None
                  /\ AllSteps[i].output # None
                  /\ Get(AllSteps[i].input) \in names
                  /\ Get(AllSteps[i].output) \in names
            /\ \A k \in 1..Len(CoordList) :
                  /\ Cardinality({i \in 1..Len(LeafSteps) :
                        LeafSteps[i].output = Some(CoordList[k].name)}) = 1
                  /\ CoordList[k].name # "base_logical_coordinates"
            /\ Pipe.input = Some("base_logical_coordinates")

C26_Witness ==
    /\ ReturnedBy("aligned_annotation_to_tomogram")
    /\ Len(Steps) = 3
    /\ Steps[2].input = Some("annotation_scaled")
    /\ Steps[2].output = Some("annotation_rotated")
    /\ Coords[2].name = "annotation_rotated"

\* C28: every transformation a builder produces, the steps it places in a
\* Sequence included, is a member of the Transformation union: its type is
\* one of the union's discriminator literals
C28_InUnion ==
    (Returned /\ op \in Builders2D \cup Builders3D \cup PixelSizeOps) =>
        \A i \in 1..Len(AllSteps) :
            AllSteps[i].type \in DOMAIN VariantOfLiteral

\* C29: every coordinate system a builder returns has as many axes as the
\* dimension of its pipeline, of pairwise distinct names: x, y for the 2-D
\* pipelines and the pixel-size builders, x, y, z for the 3-D pipelines
C29_AxesMatchDimension ==
    (Returned /\ op \in Builders2D \cup Builders3D \cup PixelSizeOps) =>
        LET n == IF op \in Builders3D THEN 3 ELSE 2
        IN  \A k \in 1..Len(CoordList) :
               LET axes == CoordList[k].axes
               IN  /\ Len(axes) = n
                   /\ \A i, j \in 1..Len(axes) :
                         i # j => axes[i].name # axes[j].name
                   /\ axes[1] \in {x_axis_logical, x_axis_physical}
                   /\ axes[2] \in {y_axis_logical, y_axis_physical}
                   /\ n = 3 => axes[3] \in {z_axis_logical, z_axis_physical}

\* C27: results of independent calls share no mutable state: changing a
\* field of an Axis reached from one returned CoordinateSystem leaves every
\* other returned CoordinateSystem unchanged, and every CoordinateSystem a
\* later call returns is as it would have been
C27_NoSharedState ==
    [][/\ SetAxisField =>
            \A j \in 1..Len(frames) :
                j # args'[1] => View(frames[j], heap') = View(frames[j], heap)
       /\ CallCoords =>
            result'.value =
               (IF op' = "logical_coords"
                THEN logical_coords(Some(args'[1]))
                ELSE physical_coords(args'[1]))]_vars

====
